---- MODULE Spec2Model ----
(***************************************************************************)
(* PyPILabExtensions (src/pypi.py): one run of list_packages.              *)
(*                                                                         *)
(* The run is sequential: the throttled XML-RPC browse call, the grouping  *)
(* of the listing, then for each group the metadata fetch, the statistics  *)
(* fetch and the record assembly, and at the end the sort.  What the three *)
(* remote services answer is the input of each step.                       *)
(*                                                                         *)
(* Encodings: a package name is a sequence of characters; the version of   *)
(* the i-th candidate of a listing is the release number i; Python's None  *)
(* is the string "None"; durations are hundredths of a second and          *)
(* rpc_request_throttling is a whole number of seconds; a fault message is *)
(* a sequence of tokens.                                                   *)
(***************************************************************************)
EXTENDS Integers, Sequences, FiniteSets, TLC

VARIABLES
    rpc_request_throttling, \* configuration trait (seconds)
    pc,                     \* position of the run
    frame,                  \* which fn(*args) of __throttleRequest runs next
    calls,                  \* invocations of the browse call so far
    sleeps,                 \* durations slept so far, in order
    outcomes,               \* what each browse invocation answered, in order
    matches,                \* the listing returned by __get_all_extensions
    groups,                 \* groups of the listing still to enrich
    name,                   \* loop variable: raw name of the current group
    latest_version,         \* loop variable: version chosen for the group
    data,                   \* metadata of the current group
    stat,                   \* last answer of the statistics endpoint
    extensions,             \* the dict of records, in insertion order
    metaFetched,            \* metadata fetches issued, in order
    statFetched,            \* statistics fetches issued, in order
    result,                 \* the catalog returned
    raised                  \* the exception that left list_packages

vars == <<rpc_request_throttling, pc, frame, calls, sleeps, outcomes, matches,
          groups, name, latest_version, data, stat, extensions, metaFetched,
          statFetched, result, raised>>

-----------------------------------------------------------------------------
(* Bounds of the model *)

MaxListing == 3
MaxCount == 2
MaxHint == 5
MaxThrottle == 2

-----------------------------------------------------------------------------
(* Python values *)

None == "None"

Truthy(v) == v \notin {None, ""}

\* a or b
Or(a, b) == IF Truthy(a) THEN a ELSE b

\* d.get(k)
Get(d, k) == IF k \in DOMAIN d THEN d[k] ELSE None

EmptyDict == [k \in {} |-> None]

\* min and max of a non-empty set of integers
Min(S) == CHOOSE x \in S : \A y \in S : x <= y
Max(S) == CHOOSE x \in S : \A y \in S : x >= y

-----------------------------------------------------------------------------
(* __throttleRequest *)

RateLimitCode == -32500
DefaultDelay == 101
Epsilon == 1

TooManyRequests == "HTTPTooManyRequests:"
LimitMayResetIn == "Limit may reset in"
SecondsDot == "seconds."

\* decimal numerals, the text of \d+ ; Numerals[n + 1] is the text of n
Numerals == <<"0", "1", "2", "3", "4", "5", "6", "7", "8", "9", "10", "11", "12">>

IsDigits(tok) == \E i \in 1..Len(Numerals) : Numerals[i] = tok

\* int(text)
IntOf(tok) == (CHOOSE i \in 1..Len(Numerals) : Numerals[i] = tok) - 1

\* err.faultCode == -32500 and err.faultString.startswith("HTTPTooManyRequests:")
IsTooManyRequests(err) ==
    /\ err.faultCode = RateLimitCode
    /\ Len(err.faultString) >= 1
    /\ err.faultString[1] = TooManyRequests

\* positions where r"Limit may reset in (\d+) seconds." matches
HintPositions(msg) ==
    {i \in 1..Len(msg) :
        /\ i + 2 <= Len(msg)
        /\ msg[i] = LimitMayResetIn
        /\ IsDigits(msg[i + 1])
        /\ msg[i + 2] = SecondsDot}

\* a variant of Delay: the hint of the message is not read
DelayIgnoringHint(msg) == DefaultDelay

\* delay = 1.01, or int(match.group(1)) when re.search finds the hint
Delay(msg) ==
    IF HintPositions(msg) = {}
    THEN DefaultDelay
    ELSE 100 * IntOf(msg[Min(HintPositions(msg)) + 1])

\* delay * self.rpc_request_throttling + 0.01
SleepTime(msg, throttling) == Delay(msg) * throttling + Epsilon

\* a variant of AfterThrottle: the retry is throttled again, without end
AfterThrottleAgain(fr) == "try_final"

\* what runs after the sleep: the recursive call with recursive=False, or
\* the bare fn(*args) of the except block
AfterThrottle(fr) == IF fr = "try_recursive" THEN "try_final" ELSE "retry"

NoFault == [faultCode |-> 0, faultString |-> <<>>]
NoException == [type |-> "none", origin |-> "none", fault |-> NoFault]
Exception(type, origin, fault) == [type |-> type, origin |-> origin, fault |-> fault]

FaultOf(outcome) == [faultCode |-> outcome.faultCode, faultString |-> outcome.faultString]

Raise(exc) ==
    /\ pc' = "raised"
    /\ raised' = exc

\* One fn(*args) of __throttleRequest, with the except block it runs in.
ThrottleRequest(outcome) ==
    /\ pc = "browse"
    /\ calls' = calls + 1
    /\ outcomes' = Append(outcomes, outcome)
    /\ UNCHANGED <<rpc_request_throttling, groups, name, latest_version, data, stat,
                   extensions, metaFetched, statFetched, result>>
    /\ CASE outcome.kind = "ok" ->
              /\ matches' = outcome.listing
              /\ pc' = "group"
              /\ UNCHANGED <<frame, sleeps, raised>>
         [] outcome.kind = "error" ->
              \* not an xmlrpc.client.Fault: no except block takes it
              /\ Raise(Exception("OSError", "listing", NoFault))
              /\ UNCHANGED <<frame, sleeps, matches>>
         [] outcome.kind = "fault" /\ frame = "retry" ->
              \* line 97 is outside any try block
              /\ Raise(Exception("Fault", "listing", FaultOf(outcome)))
              /\ UNCHANGED <<frame, sleeps, matches>>
         [] outcome.kind = "fault" /\ frame # "retry" /\ IsTooManyRequests(outcome) ->
              /\ sleeps' = Append(sleeps, SleepTime(outcome.faultString, rpc_request_throttling))
              /\ frame' = AfterThrottle(frame)
              /\ UNCHANGED <<pc, matches, raised>>
         [] outcome.kind = "fault" /\ frame # "retry" /\ ~IsTooManyRequests(outcome) ->
              \* the except block ends, and "return data" reads an unassigned local
              /\ Raise(Exception("UnboundLocalError", "listing", NoFault))
              /\ UNCHANGED <<frame, sleeps, matches>>

-----------------------------------------------------------------------------
(* list_packages *)

\* str.replace on one character: old is replaced by the characters of new
RECURSIVE Replace(_, _, _)
Replace(s, old, new) ==
    IF s = <<>> THEN <<>>
    ELSE (IF Head(s) = old THEN new ELSE <<Head(s)>>) \o Replace(Tail(s), old, new)

\* name.replace("@", "").replace("/", "-").replace("_", "-")
normalize_name(n) == Replace(Replace(Replace(n, "@", <<>>), "/", <<"-">>), "_", <<"-">>)

\* a variant of GroupBy: list(group)[0] instead of list(group)[-1]
RECURSIVE GroupByFirst(_)
GroupByFirst(m) ==
    IF m = <<>> THEN <<>>
    ELSE IF Len(m) >= 2 /\ m[2][1] = m[1][1]
         THEN GroupByFirst(<<m[1]>> \o Tail(Tail(m)))
         ELSE <<m[1]>> \o GroupByFirst(Tail(m))

\* groupby(matches, lambda e: e[0]) with list(group)[-1]: one (name, version)
\* per run of adjacent candidates with the same name, the last of the run
RECURSIVE GroupBy(_)
GroupBy(m) ==
    IF m = <<>> THEN <<>>
    ELSE IF Len(m) >= 2 /\ m[2][1] = m[1][1]
         THEN GroupBy(Tail(m))
         ELSE <<m[1]>> \o GroupBy(Tail(m))

-----------------------------------------------------------------------------
(* _fetch_package_metadata *)

MetadataKeys == {"author", "bugtrack_url", "docs_url", "home_page", "license",
                 "package_url", "project_url", "project_urls", "summary"}

\* project_urls is null or an object of label -> url
NullUrls == [tag |-> "null", items |-> EmptyDict]
UrlsObject(items) == [tag |-> "object", items |-> items]

\* the fetch raises (HTTP error), or the body has no "info" and .get fails on None
FetchFails(resp) == resp.status = "error" \/ "info" \notin DOMAIN resp.body

\* {k: data.get(k) for k in [...]}: the nine keys, None for a missing one
fetch_package_metadata(resp) ==
    LET info == resp.body["info"]
    IN  [k \in MetadataKeys |->
            IF k \in DOMAIN info THEN info[k]
            ELSE IF k = "project_urls" THEN NullUrls ELSE None]

NoData == [k \in MetadataKeys |-> IF k = "project_urls" THEN NullUrls ELSE None]

-----------------------------------------------------------------------------
(* _get_monthly_download *)

NoStat == [status |-> "none", body |-> [t |-> "none"]]

\* a variant of get_monthly_download: .get("last_month") without the default 0
get_monthly_download_no_default(resp) ==
    IF resp.status # "ok" THEN 0
    ELSE IF resp.body.t # "object" THEN 0
    ELSE IF resp.body.data.t = "absent" THEN -1
    ELSE IF resp.body.data.t # "object" THEN 0
    ELSE IF resp.body.data.last_month.t = "absent" THEN -1
    ELSE resp.body.data.last_month.v

\* json.loads(r.body).get("data", {}).get("last_month", 0), and 0 when
\* anything raises: the fetch, json.loads, or .get on a value that is no dict
get_monthly_download(resp) ==
    IF resp.status # "ok" THEN 0
    ELSE IF resp.body.t # "object" THEN 0
    ELSE IF resp.body.data.t = "absent" THEN 0
    ELSE IF resp.body.data.t # "object" THEN 0
    ELSE IF resp.body.data.last_month.t = "absent" THEN 0
    ELSE resp.body.data.last_month.v

-----------------------------------------------------------------------------
(* list_packages: the record of one package *)

\* data.get("project_urls") or {}
package_urls(d) == IF d["project_urls"].tag = "object" THEN d["project_urls"].items ELSE EmptyDict

source_url(d) == Get(package_urls(d), "Source Code")

\* a variant of homepage_url: the two operands exchanged
homepage_url_swapped(d) == Or(Get(package_urls(d), "Homepage"), d["home_page"])

homepage_url(d) == Or(d["home_page"], Get(package_urls(d), "Homepage"))

documentation_url(d) == Or(d["docs_url"], Get(package_urls(d), "Documentation"))

bug_tracker_url(d) == Or(d["bugtrack_url"], Get(package_urls(d), "Bug Tracker"))

\* a variant of best_guess_home_url: the last operand is missing
best_guess_home_url_short(d) ==
    Or(homepage_url(d),
       Or(d["project_url"],
          Or(d["package_url"],
             Or(documentation_url(d), source_url(d)))))

best_guess_home_url(d) ==
    Or(homepage_url(d),
       Or(d["project_url"],
          Or(d["package_url"],
             Or(documentation_url(d),
                Or(source_url(d), bug_tracker_url(d))))))

\* ExtensionManager.get_semver_version, of the host application
get_semver_version(v) == [semver |-> v]

\* dict(name=..., ..., monthly_download=...)
Record(n, v, d, downloads) ==
    [name                |-> normalize_name(n),
     description         |-> d["summary"],
     homepage_url        |-> best_guess_home_url(d),
     author              |-> d["author"],
     license             |-> d["license"],
     latest_version      |-> get_semver_version(v),
     pkg_type            |-> "prebuilt",
     bug_tracker_url     |-> bug_tracker_url(d),
     documentation_url   |-> documentation_url(d),
     package_manager_url |-> d["package_url"],
     repository_url      |-> source_url(d),
     monthly_download    |-> downloads]

\* a variant of SetItem: every assignment adds an entry
SetItemAppending(ext, rec) == Append(ext, rec)

\* extensions[normalized_name] = record: a key already there keeps its place
SetItem(ext, rec) ==
    IF \E i \in 1..Len(ext) : ext[i].name = rec.name
    THEN [i \in 1..Len(ext) |-> IF ext[i].name = rec.name THEN rec ELSE ext[i]]
    ELSE Append(ext, rec)

\* rec placed after the records of s whose count is <= its own
RECURSIVE InsertAfterEqual(_, _)
InsertAfterEqual(s, rec) ==
    IF s = <<>> THEN <<rec>>
    ELSE IF Head(s).monthly_download <= rec.monthly_download
         THEN <<Head(s)>> \o InsertAfterEqual(Tail(s), rec)
         ELSE <<rec>> \o s

\* rec placed before the records of s whose count is >= its own
RECURSIVE InsertBeforeEqual(_, _)
InsertBeforeEqual(s, rec) ==
    IF s = <<>> THEN <<rec>>
    ELSE IF Head(s).monthly_download < rec.monthly_download
         THEN <<Head(s)>> \o InsertBeforeEqual(Tail(s), rec)
         ELSE <<rec>> \o s

\* a variant of sorted_by_monthly_download: a sort that is not stable
RECURSIVE sorted_unstable(_)
sorted_unstable(s) ==
    IF s = <<>> THEN <<>>
    ELSE InsertBeforeEqual(sorted_unstable(SubSeq(s, 1, Len(s) - 1)), s[Len(s)])

\* list(sorted(extensions.values(), key=lambda p: p.get("monthly_download", 0)))
RECURSIVE sorted_by_monthly_download(_)
sorted_by_monthly_download(s) ==
    IF s = <<>> THEN <<>>
    ELSE InsertAfterEqual(sorted_by_monthly_download(SubSeq(s, 1, Len(s) - 1)), s[Len(s)])

-----------------------------------------------------------------------------
(* list_packages: the steps *)

\* matches = ...; extensions = {}; groupby(matches, lambda e: e[0])
GroupMatches ==
    /\ pc = "group"
    /\ groups' = GroupBy(matches)
    /\ extensions' = <<>>
    /\ pc' = "loop"
    /\ UNCHANGED <<rpc_request_throttling, frame, calls, sleeps, outcomes, matches, name,
                   latest_version, data, stat, metaFetched, statFetched, result, raised>>

\* a variant of FetchPackageMetadata: a package whose fetch fails is skipped
FetchPackageMetadataSkipping(resp) ==
    /\ pc = "loop"
    /\ groups # <<>>
    /\ name' = Head(groups)[1]
    /\ latest_version' = Head(groups)[2]
    /\ metaFetched' = Append(metaFetched,
           [name |-> Head(groups)[1], version |-> Head(groups)[2], ok |-> ~FetchFails(resp)])
    /\ IF FetchFails(resp)
       THEN /\ groups' = Tail(groups)
            /\ UNCHANGED <<pc, raised, data>>
       ELSE /\ data' = fetch_package_metadata(resp)
            /\ pc' = "statistics"
            /\ UNCHANGED <<raised, groups>>
    /\ UNCHANGED <<rpc_request_throttling, frame, calls, sleeps, outcomes, matches,
                   stat, extensions, statFetched, result>>

\* for name, group in ...: _, latest_version = list(group)[-1];
\* data = _fetch_package_metadata(name, latest_version, self.base_url)
FetchPackageMetadata(resp) ==
    /\ pc = "loop"
    /\ groups # <<>>
    /\ name' = Head(groups)[1]
    /\ latest_version' = Head(groups)[2]
    /\ metaFetched' = Append(metaFetched,
           [name |-> Head(groups)[1], version |-> Head(groups)[2], ok |-> ~FetchFails(resp)])
    /\ IF FetchFails(resp)
       THEN /\ Raise(Exception(IF resp.status = "error" THEN "HTTPError" ELSE "AttributeError",
                               "metadata", NoFault))
            /\ UNCHANGED data
       ELSE /\ data' = fetch_package_metadata(resp)
            /\ pc' = "statistics"
            /\ UNCHANGED raised
    /\ UNCHANGED <<rpc_request_throttling, frame, calls, sleeps, outcomes, matches, groups,
                   stat, extensions, statFetched, result>>

\* the rest of the loop body: the urls, _get_monthly_download(name) and
\* extensions[normalized_name] = dict(...)
BuildRecord(resp) ==
    /\ pc = "statistics"
    /\ stat' = resp
    /\ statFetched' = Append(statFetched, name)
    /\ extensions' = SetItem(extensions,
                             Record(name, latest_version, data, get_monthly_download(resp)))
    /\ groups' = Tail(groups)
    /\ pc' = "loop"
    /\ UNCHANGED <<rpc_request_throttling, frame, calls, sleeps, outcomes, matches, name,
                   latest_version, data, metaFetched, result, raised>>

\* return list(sorted(extensions.values(), ...))
Return ==
    /\ pc = "loop"
    /\ groups = <<>>
    /\ result' = sorted_by_monthly_download(extensions)
    /\ pc' = "done"
    /\ UNCHANGED <<rpc_request_throttling, frame, calls, sleeps, outcomes, matches, groups,
                   name, latest_version, data, stat, extensions, metaFetched, statFetched,
                   raised>>

-----------------------------------------------------------------------------
(* What the package index answers *)

RawNames == {<<"@", "a", "/", "b">>, <<"a", "_", "b">>, <<"c">>, <<"d">>}

\* the listings: up to MaxListing candidates, in any order, names repeated or not
Listings == UNION {[1..k -> RawNames] : k \in 0..MaxListing}

\* the (name, version) pairs of a listing
Candidates(l) == [i \in 1..Len(l) |-> <<l[i], i>>]

Listed(l) == [kind |-> "ok", listing |-> Candidates(l), faultCode |-> 0, faultString |-> <<>>]
Fault(code, msg) == [kind |-> "fault", listing |-> <<>>, faultCode |-> code, faultString |-> msg]
NetworkError == [kind |-> "error", listing |-> <<>>, faultCode |-> 0, faultString |-> <<>>]

HintMessage(n) ==
    <<TooManyRequests, "The action could not be performed.", LimitMayResetIn,
      Numerals[n + 1], SecondsDot>>

FaultMessages ==
    {HintMessage(n) : n \in 0..MaxHint}
    \cup {<<TooManyRequests, "The action could not be performed.">>,
          <<TooManyRequests, LimitMayResetIn, "a few", SecondsDot>>,
          <<"RuntimeError:", LimitMayResetIn, "5", SecondsDot>>,
          <<>>}

Faults == {Fault(code, msg) : code \in {RateLimitCode, 1}, msg \in FaultMessages}

\* answers of the browse call in a full run
BrowseOutcomes ==
    {Listed(l) : l \in Listings}
    \cup {Fault(RateLimitCode, HintMessage(1)), Fault(1, <<"RuntimeError:">>), NetworkError}

\* answers of the browse call when the throttling is examined
ThrottleOutcomes ==
    {Listed(l) : l \in {<<>>, <<<<"c">>>>}} \cup Faults \cup {NetworkError}

MetadataError == [status |-> "error", body |-> EmptyDict]
MetadataBody(body) == [status |-> "ok", body |-> body]

FullInfo ==
    [author |-> "A", bugtrack_url |-> None, docs_url |-> "D", home_page |-> "HP",
     license |-> "MIT", package_url |-> "PK", project_url |-> "PJ",
     project_urls |-> UrlsObject([Homepage |-> "H"]),
     summary |-> "An extension", version |-> "1.0", keywords |-> "jupyterlab"]

BareInfo == [summary |-> "", license |-> None, version |-> "1.0"]

\* answers of the metadata endpoint in a full run
MetadataResponses ==
    {MetadataError, MetadataBody([message |-> "Not Found"]), MetadataBody([info |-> FullInfo])}

StatError == [status |-> "error", body |-> [t |-> "none"]]
StatBody(body) == [status |-> "ok", body |-> body]
LastMonth(n) == [t |-> "object", data |-> [t |-> "object", last_month |-> [t |-> "int", v |-> n]]]

\* the statistics endpoint fails, or answers without a usable data.last_month
StatFailures ==
    {StatError,
     StatBody([t |-> "invalid"]),
     StatBody([t |-> "array"]),
     StatBody([t |-> "object", data |-> [t |-> "absent"]]),
     StatBody([t |-> "object", data |-> [t |-> "null"]]),
     StatBody([t |-> "object", data |-> [t |-> "object", last_month |-> [t |-> "absent"]]])}

StatResponses == StatFailures \cup {StatBody(LastMonth(n)) : n \in 0..MaxCount}

\* every combination of empty and non-empty url fields
UrlLabels == {"Homepage", "Source Code", "Documentation", "Bug Tracker"}

LabelUrl(l) ==
    CASE l = "Homepage" -> "H"
      [] l = "Source Code" -> "S"
      [] l = "Documentation" -> "PD"
      [] l = "Bug Tracker" -> "PB"

ProjectUrls ==
    {NullUrls}
    \cup {UrlsObject([l \in L |-> IF l \in E THEN "" ELSE LabelUrl(l)]) :
             <<L, E>> \in {p \in (SUBSET UrlLabels) \X (SUBSET UrlLabels) : p[2] \subseteq p[1]}}

UrlInfos ==
    {[author |-> "A", license |-> "MIT", summary |-> "An extension",
      home_page |-> hp, docs_url |-> d, bugtrack_url |-> b, project_url |-> pj,
      package_url |-> pk, project_urls |-> pu] :
        hp \in {None, "", "HP"}, d \in {None, "", "D"}, b \in {None, "", "B"},
        pj \in {None, "", "PJ"}, pk \in {None, "", "PK"}, pu \in ProjectUrls}

-----------------------------------------------------------------------------
(* The specifications *)

Start ==
    /\ pc = "browse"
    /\ frame = "try_recursive"
    /\ calls = 0
    /\ sleeps = <<>>
    /\ outcomes = <<>>
    /\ matches = <<>>
    /\ groups = <<>>
    /\ name = <<>>
    /\ latest_version = 0
    /\ data = NoData
    /\ stat = NoStat
    /\ extensions = <<>>
    /\ metaFetched = <<>>
    /\ statFetched = <<>>
    /\ result = <<>>
    /\ raised = NoException

\* the default configuration
Init == rpc_request_throttling = 1 /\ Start

\* a full run of list_packages
Next ==
    \/ \E outcome \in BrowseOutcomes : ThrottleRequest(outcome)
    \/ GroupMatches
    \/ \E resp \in MetadataResponses : FetchPackageMetadata(resp)
    \/ \E resp \in StatResponses : BuildRecord(resp)
    \/ Return

Spec == Init /\ [][Next]_vars

\* the throttling, for every fault and every configured throttling time
InitThrottle == rpc_request_throttling \in 0..MaxThrottle /\ Start

NextThrottle ==
    \/ \E outcome \in ThrottleOutcomes : ThrottleRequest(outcome)
    \/ GroupMatches
    \/ \E resp \in {MetadataError, MetadataBody([info |-> BareInfo])} : FetchPackageMetadata(resp)
    \/ \E resp \in {StatError, StatBody(LastMonth(1))} : BuildRecord(resp)
    \/ Return

SpecThrottle == InitThrottle /\ [][NextThrottle]_vars

\* the record of one package, for every combination of url fields
NextUrls ==
    \/ \E outcome \in {Listed(<<<<"c">>>>)} : ThrottleRequest(outcome)
    \/ GroupMatches
    \/ /\ pc = "loop" /\ groups # <<>>
       /\ \E info \in UrlInfos : FetchPackageMetadata(MetadataBody([info |-> info]))
    \/ \E resp \in {StatError, StatBody(LastMonth(1))} : BuildRecord(resp)
    \/ Return

SpecUrls == Init /\ [][NextUrls]_vars

-----------------------------------------------------------------------------
(* Properties of the throttled call, under SpecThrottle *)

Propagated(outcome) == Exception("Fault", "listing", FaultOf(outcome))

RateLimited(i) ==
    /\ i <= Len(outcomes)
    /\ outcomes[i].kind = "fault"
    /\ IsTooManyRequests(outcomes[i])

\* C1 as stated: the listing call is invoked at most 2 times, and a
\* rate-limit fault of the first retry propagates without a further attempt.
C1_AtMostTwoCalls ==
    /\ calls <= 2
    /\ (RateLimited(1) /\ RateLimited(2)) =>
           (pc = "raised" /\ raised = Propagated(outcomes[2]))

\* C1 as amended: the listing call is invoked at most 3 times.  After a
\* rate-limit fault of the first attempt and of the first retry a second
\* retry is made, and a fault of that third attempt propagates to the caller
\* without a further attempt.
C1_AtMostThreeCalls ==
    /\ calls <= 3
    /\ calls = Len(outcomes)
    /\ (calls = 2 /\ RateLimited(1) /\ RateLimited(2)) =>
           (pc = "browse" /\ frame = "retry" /\ raised = NoException)
    /\ (calls = 3 /\ outcomes[3].kind = "fault") =>
           (pc = "raised" /\ raised = Propagated(outcomes[3]))

C1_ThirdFaultPropagates ==
    /\ calls = 3
    /\ RateLimited(1) /\ RateLimited(2) /\ RateLimited(3)
    /\ pc = "raised"
    /\ raised.type = "Fault"

\* C2: a fault of the first listing call that is not the rate-limit fault
\* is met with exactly one invocation and no sleep, and that same fault
\* propagates to the caller of list_packages.
C2_OtherFaultPropagates ==
    (calls >= 1 /\ outcomes[1].kind = "fault" /\ ~RateLimited(1)) =>
        /\ calls = 1
        /\ sleeps = <<>>
        /\ pc = "raised"
        /\ raised = Propagated(outcomes[1])

\* the hint number of a message that has one at the usual place
HintOf(msg) == CHOOSE n \in 0..MaxHint : msg = HintMessage(n)
HasHint(msg) == \E n \in 0..MaxHint : msg = HintMessage(n)

\* C10: every attempt that follows a rate-limit fault is preceded by exactly
\* one sleep and there is no sleep without a rate-limit fault; the i-th sleep
\* lasts N * rpc_request_throttling + 0.01 s for the hint N of the i-th
\* fault, and 1.01 * rpc_request_throttling + 0.01 s when no hint is found.
C10_SleepBeforeRetry ==
    /\ Len(sleeps) <= calls
    /\ calls >= 1 => Len(sleeps) >= calls - 1
    /\ (Len(sleeps) = calls /\ calls >= 1) => pc = "browse"
    /\ \A i \in 1..Len(sleeps) :
          /\ RateLimited(i)
          /\ HasHint(outcomes[i].faultString) =>
                sleeps[i] = 100 * HintOf(outcomes[i].faultString) * rpc_request_throttling + 1
          /\ HintPositions(outcomes[i].faultString) = {} =>
                sleeps[i] = 101 * rpc_request_throttling + 1

C10_HintFiveThrottleTwo ==
    /\ rpc_request_throttling = 2
    /\ calls = 2
    /\ outcomes[1].faultString = HintMessage(5)
    /\ sleeps = <<1001>>

-----------------------------------------------------------------------------
(* Properties of one record, under SpecUrls *)

\* the record of the current group has been put into the dict
Built == pc \in {"loop", "done"} /\ statFetched # <<>>

CurrentRecord ==
    extensions[CHOOSE i \in 1..Len(extensions) : extensions[i].name = normalize_name(name)]

ProjectUrl(label) == Get(package_urls(data), label)

\* the first non-empty value of a sequence of candidates; "empty" is None or ""
IsFirstNonEmpty(v, cands) ==
    IF \E i \in 1..Len(cands) : Truthy(cands[i])
    THEN v = cands[Min({i \in 1..Len(cands) : Truthy(cands[i])})]
    ELSE ~Truthy(v)

\* C7 as stated: the homepage url is project_urls["Homepage"] when that is
\* non-empty and the metadata home_page otherwise; repository_url is
\* project_urls["Source Code"].
C7_ProjectUrlsHomepageFirst ==
    Built =>
        /\ Truthy(ProjectUrl("Homepage")) =>
               CurrentRecord.homepage_url = ProjectUrl("Homepage")
        /\ (~Truthy(ProjectUrl("Homepage")) /\ Truthy(data["home_page"])) =>
               CurrentRecord.homepage_url = data["home_page"]
        /\ CurrentRecord.repository_url = ProjectUrl("Source Code")

\* C7 as amended: the homepage url is the metadata home_page when that is
\* non-empty and project_urls["Homepage"] otherwise; repository_url is
\* project_urls["Source Code"] with no fallback.
C7_HomePageFirst ==
    Built =>
        /\ Truthy(data["home_page"]) => CurrentRecord.homepage_url = data["home_page"]
        /\ (~Truthy(data["home_page"]) /\ Truthy(ProjectUrl("Homepage"))) =>
               CurrentRecord.homepage_url = ProjectUrl("Homepage")
        /\ CurrentRecord.repository_url = ProjectUrl("Source Code")

C7_Scenario ==
    /\ Built
    /\ data["home_page"] = "HP"
    /\ data["project_urls"] = UrlsObject([l \in {"Homepage", "Source Code"} |-> LabelUrl(l)])
    /\ CurrentRecord.homepage_url = "HP"
    /\ CurrentRecord.repository_url = "S"

\* the homepage url: home_page, else project_urls["Homepage"]
HomepageCandidate ==
    IF Truthy(data["home_page"]) THEN data["home_page"] ELSE ProjectUrl("Homepage")

\* C8 as stated: homepage_url is the first non-empty of the homepage url,
\* project_url, package_url, the documentation url and the repository url,
\* and is empty when these five are empty.
C8_FiveCandidates ==
    Built =>
        IsFirstNonEmpty(CurrentRecord.homepage_url,
                        <<HomepageCandidate, data["project_url"], data["package_url"],
                          CurrentRecord.documentation_url, CurrentRecord.repository_url>>)

\* C8 as amended: homepage_url is the first non-empty of six candidates,
\* the five above and then the bug tracker url, and is empty when all six
\* are empty.
C8_SixCandidates ==
    Built =>
        IsFirstNonEmpty(CurrentRecord.homepage_url,
                        <<HomepageCandidate, data["project_url"], data["package_url"],
                          CurrentRecord.documentation_url, CurrentRecord.repository_url,
                          CurrentRecord.bug_tracker_url>>)

C8_BugTrackerOnly ==
    /\ Built
    /\ ~Truthy(data["home_page"]) /\ ~Truthy(ProjectUrl("Homepage"))
    /\ ~Truthy(data["project_url"]) /\ ~Truthy(data["package_url"])
    /\ ~Truthy(CurrentRecord.documentation_url) /\ ~Truthy(CurrentRecord.repository_url)
    /\ CurrentRecord.bug_tracker_url = "PB"
    /\ CurrentRecord.homepage_url = "PB"

-----------------------------------------------------------------------------
(* Properties of a full run, under Spec *)

Indices(s) == 1..Len(s)

\* C3: once the metadata fetch of a package has failed, list_packages has
\* raised that failure: the failing fetch is the last one issued, no
\* statistics fetch follows it, and no catalog is returned.
C3_MetadataFailureAborts ==
    \A i \in Indices(metaFetched) :
        ~metaFetched[i].ok =>
            /\ i = Len(metaFetched)
            /\ pc = "raised"
            /\ raised.origin = "metadata"
            /\ Len(statFetched) = i - 1
            /\ result = <<>>

C3_FailureAfterRecords ==
    /\ pc = "raised"
    /\ raised.origin = "metadata"
    /\ Len(extensions) >= 2
    /\ result = <<>>

\* C4: when the statistics endpoint fails or answers without a usable
\* data.last_month, the record of the package is built with a monthly
\* download count of exactly 0 and its other fields as usual, the records
\* built before it are kept, and nothing is raised.
C4_StatisticsFailureGivesZero ==
    /\ raised.origin \in {"none", "listing", "metadata"}
    /\ (pc = "loop" /\ statFetched # <<>> /\ stat \in StatFailures) =>
          /\ raised = NoException
          /\ Len(statFetched) = Len(metaFetched)
          /\ CurrentRecord.monthly_download = 0
          /\ CurrentRecord.description = data["summary"]
          /\ CurrentRecord.author = data["author"]
          /\ CurrentRecord.pkg_type = "prebuilt"
          /\ CurrentRecord.latest_version = get_semver_version(latest_version)
          /\ \A i \in Indices(statFetched) :
                \E j \in Indices(extensions) : extensions[j].name = normalize_name(statFetched[i])

C4_FailureAmongOthers ==
    /\ pc = "loop"
    /\ stat \in StatFailures
    /\ Len(extensions) = 3
    /\ CurrentRecord.monthly_download = 0
    /\ \E i \in Indices(extensions) : extensions[i].monthly_download > 0

\* the first time a record was stored under a key
FirstBuilt(key) == Min({i \in Indices(statFetched) : normalize_name(statFetched[i]) = key})

\* C5: the catalog returned holds the records of the dict in non-decreasing
\* order of monthly download count, and records with equal counts are in the
\* order in which their keys were first inserted.
C5_SortedAndStable ==
    pc = "done" =>
        /\ Len(result) = Len(extensions)
        /\ {result[i] : i \in Indices(result)} = {extensions[i] : i \in Indices(extensions)}
        /\ \A i, j \in Indices(result) :
              i < j =>
                 /\ result[i].monthly_download <= result[j].monthly_download
                 /\ result[i].monthly_download = result[j].monthly_download =>
                        FirstBuilt(result[i].name) < FirstBuilt(result[j].name)

C5_TieAndReorder ==
    /\ pc = "done"
    /\ Len(result) = 3
    /\ result[1].monthly_download = result[2].monthly_download
    /\ result[2].monthly_download < result[3].monthly_download
    /\ result[3] = extensions[1]

\* the positions of the listing that end a run of adjacent equal names
RunEnds ==
    {i \in Indices(matches) : i = Len(matches) \/ matches[i + 1][1] # matches[i][1]}

\* the k-th run end
RunEnd(k) == CHOOSE e \in RunEnds : Cardinality({x \in RunEnds : x <= e}) = k

\* the last position of the listing with a raw name
LastListed(n) == Max({i \in Indices(matches) : matches[i][1] = n})

\* C6 as stated: in a finished run every distinct raw name of the listing
\* has had exactly one metadata fetch and one statistics fetch, with the last
\* version listed for that name.
C6_OncePerRawName ==
    pc = "done" =>
        \A n \in {matches[i][1] : i \in Indices(matches)} :
            /\ Cardinality({k \in Indices(metaFetched) : metaFetched[k].name = n}) = 1
            /\ Cardinality({k \in Indices(statFetched) : statFetched[k] = n}) = 1
            /\ \A k \in Indices(metaFetched) :
                  metaFetched[k].name = n => metaFetched[k].version = matches[LastListed(n)][2]

\* C6 as amended: every run of adjacent candidates with the same raw name is
\* enriched exactly once, in listing order: one metadata fetch and one
\* statistics fetch per run, with the last version of the run.  A raw name
\* listed at non-adjacent positions is enriched once per run.
C6_OncePerRun ==
    /\ Len(metaFetched) <= Cardinality(RunEnds)
    /\ Len(statFetched) <= Len(metaFetched)
    /\ pc = "done" =>
          (Len(metaFetched) = Cardinality(RunEnds) /\ Len(statFetched) = Cardinality(RunEnds))
    /\ \A k \in Indices(metaFetched) :
          /\ metaFetched[k].name = matches[RunEnd(k)][1]
          /\ metaFetched[k].version = matches[RunEnd(k)][2]
    /\ \A k \in Indices(statFetched) : statFetched[k] = matches[RunEnd(k)][1]

C6_NameListedApart ==
    /\ pc = "done"
    /\ Len(matches) = 3
    /\ matches[1][1] = matches[3][1]
    /\ matches[1][1] # matches[2][1]
    /\ Len(metaFetched) = 3
    /\ metaFetched[1].version = 1
    /\ metaFetched[3].version = 3

\* the last position of the listing whose name normalizes to a key
LastOfKey(key) == Max({i \in Indices(matches) : normalize_name(matches[i][1]) = key})

\* C9: the catalog returned holds exactly one record per distinct normalized
\* name of the listing, and the record of a key is the one of the candidate
\* processed last among those that normalize to it.
C9_OneRecordPerKey ==
    pc = "done" =>
        /\ \A i, j \in Indices(result) : result[i].name = result[j].name => i = j
        /\ {result[i].name : i \in Indices(result)}
               = {normalize_name(matches[i][1]) : i \in Indices(matches)}
        /\ Len(result) = Cardinality({normalize_name(matches[i][1]) : i \in Indices(matches)})
        /\ \A i \in Indices(result) :
              result[i].latest_version
                  = get_semver_version(matches[LastOfKey(result[i].name)][2])

C9_Collision ==
    /\ pc = "done"
    /\ Len(matches) = 3
    /\ matches[1][1] # matches[2][1]
    /\ normalize_name(matches[1][1]) = normalize_name(matches[2][1])
    /\ Len(result) = 2

====
